---- MODULE Spec2Model ----
(***************************************************************************)
(* GMFlow.forward_image (src/gmflow/gmflow_minimal.py): the multi-scale    *)
(* refinement loop, modelled as a state machine over tensor shapes, and    *)
(* GMFlow.upsample_flow's convex branch, modelled numerically per output   *)
(* pixel.                                                                  *)
(*                                                                         *)
(* A tensor is abstracted to its batch layout (a sequence of blocks of B   *)
(* items each), its spatial resolution, a postfix list of the operations   *)
(* that produced its value, and whether it carries gradient history.       *)
(***************************************************************************)
EXTENDS Integers, Sequences, FiniteSets, TLC

\* ---------------------------------------------------------------- bounds
MaxScales == 2
MaxBatch == 2
MaxRadius == 1
MaxLogit == 2

\* ------------------------------------------------------ program constants
GlobalCorr == -1
DefaultUpsampleArg == 8
InterpScale == 2
KernelSize == 3
Padding == 1
NumTaps == 9

UpsampleFactors == {1, 2}
Resolutions == {<<1, 2>>, <<2, 2>>, <<3, 3>>}
FlowBases == {-2, 3}
FlowSlopes == {-1, 0, 1}

VARIABLES
    num_scales, upsample_factor, training,
    attn_splits_list, corr_radius_list, prop_radius_list, pred_bidir_flow,
    B, H, W,
    feature0_list, feature1_list, feature0, feature1,
    flow, flow_pred, flow_preds, scale_idx,
    pc, err, calls,
    coarse, up_out

inputs == <<num_scales, upsample_factor, training, attn_splits_list,
            corr_radius_list, prop_radius_list, pred_bidir_flow, B, H, W>>
upvars == <<coarse, up_out>>
vars == <<inputs, feature0_list, feature1_list, feature0, feature1,
          flow, flow_pred, flow_preds, scale_idx, pc, err, calls, upvars>>

\* ------------------------------------------------------------ tensors
\* `flow = None` (line 95) and the `None` feature of line 139.
NoFlow == [blocks |-> <<>>, h |-> 0, w |-> 0, val |-> <<>>, grad |-> FALSE]
NoFeature == [blocks |-> <<>>, h |-> 0, w |-> 0, warped |-> FALSE]
IsNone(t) == t.blocks = <<>>

BatchOf(t) == Len(t.blocks) * B
SameShape(a, b) == BatchOf(a) = BatchOf(b) /\ a.h = b.h /\ a.w = b.w

Call(op, kind, s, b0, b1, grad) ==
    [op |-> op, kind |-> kind, scale |-> s, b0 |-> b0, b1 |-> b1, grad |-> grad]

\* backbone + torch.chunk: one feature map per image, at resolution H x W.
\* extract_feature appends exactly one map to each list.
ExtractFeature ==
    [f0 |-> << [blocks |-> <<"f0">>, h |-> H, w |-> W, warped |-> FALSE] >>,
     f1 |-> << [blocks |-> <<"f1">>, h |-> H, w |-> W, warped |-> FALSE] >>]

\* the chained comparison of the assert in forward_image
ConfigOK ==
    /\ Len(attn_splits_list) = Len(corr_radius_list)
    /\ Len(corr_radius_list) = Len(prop_radius_list)
    /\ Len(prop_radius_list) = num_scales

\* torch.cat(..., dim=0)
Cat0(a, b) == [a EXCEPT !.blocks = a.blocks \o b.blocks]

ScaleUpsampleFactorFlat(s) == upsample_factor
ScaleUpsampleFactor(s) == upsample_factor * (2 ^ (num_scales - 1 - s))

\* F.interpolate(x, scale_factor=k, mode='bilinear', align_corners=True) * k
Interpolate(f, k) ==
    [f EXCEPT !.h = k * f.h, !.w = k * f.w,
              !.val = @ \o << [op |-> "interp", arg |-> k], [op |-> "mul", arg |-> k] >>]

DetachNoop(f) == f
Detach(f) == [f EXCEPT !.grad = FALSE]

\* geometry.flow_warp(feature, flow)
FlowWarp(feature, f) ==
    [ok |-> SameShape(feature, f), out |-> [feature EXCEPT !.warped = TRUE]]

Dir(blk) == IF blk = "f0" THEN "fwd" ELSE "bwd"
Dirs(blocks) == [i \in 1..Len(blocks) |-> Dir(blocks[i])]

\* matching.global_correlation_softmax(feature0, feature1, pred_bidir_flow)[0]
GlobalCorrelationSoftmax(f0, f1, bidir, s) ==
    [ok |-> SameShape(f0, f1),
     out |-> [blocks |-> IF bidir THEN Dirs(f0.blocks) \o Dirs(f1.blocks)
                         ELSE Dirs(f0.blocks),
              h |-> f0.h, w |-> f0.w,
              val |-> << [op |-> "pred", arg |-> s] >>, grad |-> TRUE]]

\* matching.local_correlation_softmax(feature0, feature1, corr_radius)[0]
LocalCorrelationSoftmax(f0, f1, radius, s) ==
    [ok |-> SameShape(f0, f1),
     out |-> [blocks |-> Dirs(f0.blocks), h |-> f0.h, w |-> f0.w,
              val |-> << [op |-> "pred", arg |-> s] >>, grad |-> TRUE]]

Broadcastable(m, n) == m = n \/ m = 1 \/ n = 1

\* flow = flow + flow_pred if flow is not None else flow_pred
AccumulateAsResidual(f, pred) ==
    [ok |-> TRUE, out |-> [pred EXCEPT !.val = @ \o << [op |-> "add", arg |-> 0] >>]]
Accumulate(f, pred) ==
    IF IsNone(f) THEN [ok |-> TRUE, out |-> pred]
    ELSE [ok |-> /\ Broadcastable(BatchOf(f), BatchOf(pred))
                 /\ Broadcastable(f.h, pred.h) /\ Broadcastable(f.w, pred.w),
          out |-> [blocks |-> IF BatchOf(f) >= BatchOf(pred) THEN f.blocks ELSE pred.blocks,
                   h |-> IF f.h >= pred.h THEN f.h ELSE pred.h,
                   w |-> IF f.w >= pred.w THEN f.w ELSE pred.w,
                   val |-> f.val \o pred.val \o << [op |-> "add", arg |-> 0] >>,
                   grad |-> f.grad \/ pred.grad]]

\* upsample_flow(flow, feature, bilinear, upsample_factor)
UpsampleFlow(f, feature, bilinear, factor) ==
    IF bilinear
    THEN [ok |-> TRUE,
          kind |-> "bilinear",
          out |-> Interpolate(f, factor)]
    ELSE [ok |-> SameShape(f, feature),
          kind |-> "convex",
          out |-> [f EXCEPT !.h = upsample_factor * f.h, !.w = upsample_factor * f.w,
                            !.val = @ \o << [op |-> "convex", arg |-> upsample_factor] >>,
                            !.grad = TRUE]]

\* transformer.FeatureFlowAttention.forward(feature0, flow, local_window_attn, local_window_radius)
FeatureFlowAttn(feature, f, local, radius, s) ==
    [ok |-> SameShape(feature, f),
     out |-> [f EXCEPT !.val = @ \o << [op |-> "prop", arg |-> s] >>, !.grad = TRUE]]

\* the two gates on appending to flow_preds
AppendBilinearAt(s) == training /\ s < num_scales - 1
AppendConvexTrainingOnly(s) == training /\ s = num_scales - 1
AppendConvexAt(s) == s = num_scales - 1

Entry(s, stage, kind, f) == [scale |-> s, stage |-> stage, kind |-> kind, flow |-> f]

\* ------------------------------------------------------------ inputs
ConstSeq(n, x) == [i \in 1..n |-> x]
CorrRadii == {GlobalCorr} \cup (1..MaxRadius)
PropRadii == 0..MaxRadius
ListLens == 1..(MaxScales + 1)

ZeroGrid(h, w) == [p \in (0..(h - 1)) \X (0..(w - 1)) |-> 0]
NoOut == [y |-> 0, x |-> 0, wnum |-> [t \in 0..(NumTaps - 1) |-> 0], wden |-> 0,
          num |-> 0, stage |-> "none"]

Init ==
    /\ num_scales \in 1..MaxScales
    /\ upsample_factor \in UpsampleFactors
    /\ training \in BOOLEAN
    /\ pred_bidir_flow \in BOOLEAN
    /\ \E n \in ListLens : attn_splits_list = ConstSeq(n, 2)
    /\ \E n \in ListLens, r \in CorrRadii : corr_radius_list = ConstSeq(n, r)
    /\ \E n \in ListLens, r \in PropRadii : prop_radius_list = ConstSeq(n, r)
    /\ B \in 1..MaxBatch
    /\ \E res \in Resolutions : H = res[1] /\ W = res[2]
    /\ feature0_list = <<>> /\ feature1_list = <<>>
    /\ feature0 = NoFeature /\ feature1 = NoFeature
    /\ flow = NoFlow /\ flow_pred = NoFlow
    /\ flow_preds = <<>>
    /\ scale_idx = 0
    /\ pc = "extract" /\ err = "" /\ calls = <<>>
    /\ coarse = ZeroGrid(H, W) /\ up_out = NoOut

Fail(e) == pc' = "error" /\ err' = e

\* lines 87-95
DoExtract ==
    /\ pc = "extract"
    /\ flow_preds' = <<>>
    /\ feature0_list' = ExtractFeature.f0
    /\ feature1_list' = ExtractFeature.f1
    /\ flow' = NoFlow
    /\ calls' = Append(calls, Call("extract_feature", "", 0, B, B, FALSE))
    /\ pc' = "assert"
    /\ UNCHANGED <<inputs, feature0, feature1, flow_pred, scale_idx, err, upvars>>

\* line 97
DoAssert ==
    /\ pc = "assert"
    /\ IF ConfigOK THEN pc' = "loop" /\ err' = err ELSE Fail("AssertionError")
    /\ UNCHANGED <<inputs, feature0_list, feature1_list, feature0, feature1,
                   flow, flow_pred, flow_preds, scale_idx, calls, upvars>>

\* lines 99-108
SelectFeatures ==
    /\ pc = "loop" /\ scale_idx < num_scales
    /\ IF scale_idx + 1 > Len(feature0_list) \/ scale_idx + 1 > Len(feature1_list)
       THEN Fail("IndexError") /\ UNCHANGED <<feature0, feature1>>
       ELSE LET f0 == feature0_list[scale_idx + 1]
                f1 == feature1_list[scale_idx + 1]
            IN /\ IF pred_bidir_flow /\ scale_idx > 0
                  THEN feature0' = Cat0(f0, f1) /\ feature1' = Cat0(f1, f0)
                  ELSE feature0' = f0 /\ feature1' = f1
               /\ pc' = "warp" /\ err' = err
    /\ UNCHANGED <<inputs, feature0_list, feature1_list, flow, flow_pred,
                   flow_preds, scale_idx, calls, upvars>>

\* lines 110-116
InterpAndWarp ==
    /\ pc = "warp"
    /\ LET f1 == IF scale_idx > 0 THEN Interpolate(flow, InterpScale) ELSE flow
           c1 == IF scale_idx > 0
                 THEN << Call("interpolate", "bilinear", scale_idx, 0, BatchOf(flow), flow.grad) >>
                 ELSE <<>>
       IN IF IsNone(f1)
          THEN /\ flow' = f1 /\ feature1' = feature1
               /\ calls' = calls \o c1
               /\ pc' = "match" /\ err' = err
          ELSE LET d == Detach(f1)
                   r == FlowWarp(feature1, d)
               IN /\ flow' = d
                  /\ calls' = calls \o c1 \o
                        << Call("flow_warp", "", scale_idx, BatchOf(feature1), BatchOf(d), d.grad) >>
                  /\ IF r.ok THEN feature1' = r.out /\ pc' = "match" /\ err' = err
                     ELSE feature1' = feature1 /\ Fail("RuntimeError")
    /\ UNCHANGED <<inputs, feature0_list, feature1_list, feature0, flow_pred,
                   flow_preds, scale_idx, upvars>>

\* lines 119-130
Match ==
    /\ pc = "match"
    /\ LET corr_radius == corr_radius_list[scale_idx + 1]
           r == IF corr_radius = GlobalCorr
                THEN GlobalCorrelationSoftmax(feature0, feature1, pred_bidir_flow, scale_idx)
                ELSE LocalCorrelationSoftmax(feature0, feature1, corr_radius, scale_idx)
       IN /\ calls' = Append(calls,
                 Call("match", IF corr_radius = GlobalCorr THEN "global" ELSE "local",
                      scale_idx, BatchOf(feature0), BatchOf(feature1), FALSE))
          /\ IF r.ok THEN flow_pred' = r.out /\ pc' = "accum" /\ err' = err
             ELSE flow_pred' = flow_pred /\ Fail("RuntimeError")
    /\ UNCHANGED <<inputs, feature0_list, feature1_list, feature0, feature1,
                   flow, flow_preds, scale_idx, upvars>>

\* line 133
DoAccumulate ==
    /\ pc = "accum"
    /\ LET r == Accumulate(flow, flow_pred)
       IN /\ calls' = Append(calls,
                 Call("accumulate", IF IsNone(flow) THEN "assign" ELSE "add",
                      scale_idx, BatchOf(flow), BatchOf(flow_pred), flow.grad))
          /\ IF r.ok THEN flow' = r.out /\ pc' = "pre_up" /\ err' = err
             ELSE flow' = flow /\ Fail("RuntimeError")
    /\ UNCHANGED <<inputs, feature0_list, feature1_list, feature0, feature1,
                   flow_pred, flow_preds, scale_idx, upvars>>

\* the pair of gated upsample-and-append statements, before (lines 138-144)
\* and after (lines 155-161) propagation
UpsampleAndAppend(stage, ok_pc) ==
    IF AppendBilinearAt(scale_idx)
    THEN LET r == UpsampleFlow(flow, IF stage = "pre" THEN NoFeature ELSE feature0,
                               TRUE, ScaleUpsampleFactor(scale_idx))
         IN /\ calls' = Append(calls, Call("upsample", "bilinear", scale_idx,
                                           BatchOf(flow), BatchOf(flow), flow.grad))
            /\ flow_preds' = Append(flow_preds, Entry(scale_idx, stage, r.kind, r.out))
            /\ pc' = ok_pc /\ err' = err
    ELSE IF AppendConvexAt(scale_idx)
    THEN LET r == UpsampleFlow(flow, feature0, FALSE, DefaultUpsampleArg)
         IN /\ calls' = Append(calls, Call("upsample", "convex", scale_idx,
                                           BatchOf(flow), BatchOf(feature0), flow.grad))
            /\ IF r.ok
               THEN /\ flow_preds' = Append(flow_preds, Entry(scale_idx, stage, r.kind, r.out))
                    /\ pc' = ok_pc /\ err' = err
               ELSE flow_preds' = flow_preds /\ Fail("RuntimeError")
    ELSE /\ calls' = calls /\ flow_preds' = flow_preds
         /\ pc' = ok_pc /\ err' = err

\* lines 138-144
PreUpsample ==
    /\ pc = "pre_up"
    /\ UpsampleAndAppend("pre", "prop")
    /\ UNCHANGED <<inputs, feature0_list, feature1_list, feature0, feature1,
                   flow, flow_pred, scale_idx, upvars>>

\* lines 147-151
Propagate ==
    /\ pc = "prop"
    /\ LET prop_radius == prop_radius_list[scale_idx + 1]
           f0 == IF pred_bidir_flow /\ scale_idx = 0 THEN Cat0(feature0, feature1) ELSE feature0
           arg == Detach(flow)
           r == FeatureFlowAttn(f0, arg, prop_radius > 0, prop_radius, scale_idx)
       IN /\ feature0' = f0
          /\ calls' = Append(calls,
                 Call("feature_flow_attn", IF prop_radius > 0 THEN "local" ELSE "global",
                      scale_idx, BatchOf(f0), BatchOf(arg), arg.grad))
          /\ IF r.ok THEN flow' = r.out /\ pc' = "post_up" /\ err' = err
             ELSE flow' = flow /\ Fail("RuntimeError")
    /\ UNCHANGED <<inputs, feature0_list, feature1_list, feature1,
                   flow_pred, flow_preds, scale_idx, upvars>>

\* lines 155-161, and the loop's increment
PostUpsample ==
    /\ pc = "post_up"
    /\ UpsampleAndAppend("post", "loop")
    /\ scale_idx' = IF pc' = "loop" THEN scale_idx + 1 ELSE scale_idx
    /\ UNCHANGED <<inputs, feature0_list, feature1_list, feature0, feature1,
                   flow, flow_pred, upvars>>

\* lines 163-165
Return ==
    /\ pc = "loop" /\ scale_idx = num_scales
    /\ pc' = "done"
    /\ UNCHANGED <<inputs, feature0_list, feature1_list, feature0, feature1,
                   flow, flow_pred, flow_preds, scale_idx, err, calls, upvars>>

Next ==
    \/ DoExtract
    \/ DoAssert
    \/ SelectFeatures
    \/ InterpAndWarp
    \/ Match
    \/ DoAccumulate
    \/ PreUpsample
    \/ Propagate
    \/ PostUpsample
    \/ Return

Spec == Init /\ [][Next]_vars

\* ---------------------------------------------------------------------
\* upsample_flow, convex branch, one output pixel at a time.
\* coarse[<<i, j>>] is one channel of the flow at coarse pixel (i, j); the two
\* channels are combined with the same mask, so one channel stands for both.
\* The mask network's logits are inputs. exp(l) is taken from a table of
\* e^l in millionths, so the softmax weights are the fractions wnum[t] / wden.

TapSet == 0..(NumTaps - 1)

RECURSIVE SumTo(_, _)
SumTo(f, t) == IF t < 0 THEN 0 ELSE f[t] + SumTo(f, t - 1)

\* e^0 .. e^4, in millionths
ExpTable == <<1000000, 2718282, 7389056, 20085537, 54598150>>
Exp(l) == ExpTable[l + 1]

\* torch.softmax(mask, dim=2)
SoftmaxUnnormalised(logits) ==
    [num |-> [t \in TapSet |-> Exp(logits[t])], den |-> 1000000]
Softmax(logits) ==
    LET e == [t \in TapSet |-> Exp(logits[t])]
    IN [num |-> e, den |-> SumTo(e, NumTaps - 1)]

\* F.unfold(self.upsample_factor * flow, [3, 3], padding=1).view(b, c, 9, 1, 1, h, w)
UnfoldTap(g, h, w, i, j, t) ==
    LET si == i + (t \div KernelSize) - Padding
        sj == j + (t % KernelSize) - Padding
    IN IF si \in 0..(h - 1) /\ sj \in 0..(w - 1)
       THEN upsample_factor * g[<<si, sj>>]
       ELSE 0

\* torch.sum(mask * up_flow, dim=2), times the common denominator
WeightedSum(g, h, w, i, j, wnum) ==
    SumTo([t \in TapSet |-> wnum[t] * UnfoldTap(g, h, w, i, j, t)], NumTaps - 1)

\* permute(0, 1, 4, 2, 5, 3).reshape(b, c, K * h, K * w): output pixel
\* (y, x) is sub-pixel (y % K, x % K) of coarse pixel (y \div K, x \div K)
CoarseRow(y) == y \div upsample_factor
CoarseCol(x) == x \div upsample_factor

Ramp(h, w, a, b, c) == [p \in (0..(h - 1)) \X (0..(w - 1)) |-> a + b * p[1] + c * p[2]]
HotLogits(hot, l) == [t \in TapSet |-> IF t = hot THEN l ELSE 0]

InitUp ==
    /\ num_scales = 1
    /\ upsample_factor \in UpsampleFactors
    /\ training = FALSE
    /\ pred_bidir_flow = FALSE
    /\ attn_splits_list = <<2>> /\ corr_radius_list = <<GlobalCorr>>
    /\ prop_radius_list = <<0>>
    /\ B = 1
    /\ \E res \in Resolutions : H = res[1] /\ W = res[2]
    /\ feature0_list = <<>> /\ feature1_list = <<>>
    /\ feature0 = NoFeature /\ feature1 = NoFeature
    /\ flow = NoFlow /\ flow_pred = NoFlow
    /\ flow_preds = <<>>
    /\ scale_idx = 0
    /\ pc = "up_mask" /\ err = "" /\ calls = <<>>
    /\ \E a \in FlowBases, b \in FlowSlopes, c \in FlowSlopes : coarse = Ramp(H, W, a, b, c)
    /\ up_out = NoOut

mainvars == <<inputs, feature0_list, feature1_list, feature0, feature1,
              flow, flow_pred, flow_preds, scale_idx, err, calls>>

\* lines 62-67: the mask of one output pixel
ComputeMask ==
    /\ pc = "up_mask"
    /\ \E y \in 0..(upsample_factor * H - 1), x \in 0..(upsample_factor * W - 1),
          hot \in TapSet, l \in 0..MaxLogit :
          LET m == Softmax(HotLogits(hot, l))
          IN up_out' = [y |-> y, x |-> x, wnum |-> m.num, wden |-> m.den,
                        num |-> 0, stage |-> "mask"]
    /\ pc' = "up_sum"
    /\ UNCHANGED <<mainvars, coarse>>

\* lines 69-75: the value of that output pixel
ConvexSum ==
    /\ pc = "up_sum"
    /\ up_out' = [up_out EXCEPT
                    !.num = WeightedSum(coarse, H, W, CoarseRow(up_out.y),
                                        CoarseCol(up_out.x), up_out.wnum),
                    !.stage = "out"]
    /\ pc' = "up_done"
    /\ UNCHANGED <<mainvars, coarse>>

NextUp ==
    \/ ComputeMask
    \/ ConvexSum

SpecUp == InitUp /\ [][NextUp]_vars

\* =====================================================================
\* Properties of forward_image

RECURSIVE CountScale(_, _)
CountScale(k, s) ==
    IF k = 0 THEN 0
    ELSE (IF flow_preds[k].scale = s THEN 1 ELSE 0) + CountScale(k - 1, s)

IsEntry(e, s, stage, kind) == e.scale = s /\ e.stage = stage /\ e.kind = kind

\* C1: when the three per-scale lists do not all have length num_scales, the
\* call fails with the configuration error before any computation: nothing
\* (feature extraction included) has been invoked and nothing appended.
C1_FailsBeforeAnyComputation ==
    (pc = "error" /\ err = "AssertionError") => (calls = <<>> /\ flow_preds = <<>>)

\* C2: every finished scale that is not the last has appended 2 entries in
\* training mode and 0 in inference mode, the last scale has appended its
\* pre- and post-propagation convex upsamples in both modes, and a returned
\* sequence has 2 * num_scales entries in training and 2 in inference.
C2_EntriesPerScale ==
    /\ \A s \in 0..(num_scales - 1) :
          scale_idx > s =>
             /\ CountScale(Len(flow_preds), s) =
                   (IF s < num_scales - 1 THEN (IF training THEN 2 ELSE 0) ELSE 2)
             /\ s = num_scales - 1 =>
                   /\ Len(flow_preds) >= 2
                   /\ IsEntry(flow_preds[Len(flow_preds) - 1], s, "pre", "convex")
                   /\ IsEntry(flow_preds[Len(flow_preds)], s, "post", "convex")
    /\ pc = "done" => Len(flow_preds) = (IF training THEN 2 * num_scales ELSE 2)

C2_Witness == pc = "done" /\ ~training /\ Len(flow_preds) = 2

\* C3: with a valid configuration the call never aborts.
C3_NeverAborts == ConfigOK => pc # "error"

\* C4: after feature extraction both feature lists have at least num_scales
\* entries, so every scale index can be selected.
C4_ListsCoverScales ==
    pc # "extract" =>
        /\ Len(feature0_list) >= num_scales
        /\ Len(feature1_list) >= num_scales

\* C5: in bidirectional mode, processing scale 0 and running propagation
\* does not abort and yields a flow of batch 2B, forward flow first.
C5_BidirDoublesBatch ==
    (pred_bidir_flow /\ ConfigOK /\ scale_idx = 0) =>
        /\ pc # "error"
        /\ pc = "post_up" => (BatchOf(flow) = 2 * B /\ flow.blocks = <<"fwd", "bwd">>)

\* C6: after accumulation at scale 0 the flow is the raw prediction of scale
\* 0, with no addition; at a scale s > 0 it is the output of scale s-1's
\* propagation, interpolated 2x and doubled, plus the prediction of scale s.
C6_ResidualAccumulation ==
    pc = "pre_up" =>
        /\ scale_idx = 0 =>
              /\ flow = flow_pred
              /\ flow.val = << [op |-> "pred", arg |-> 0] >>
        /\ scale_idx > 0 =>
              LET n == Len(flow.val)
              IN /\ n >= 5
                 /\ flow.val[n - 4] = [op |-> "prop", arg |-> scale_idx - 1]
                 /\ SubSeq(flow.val, n - 3, n) =
                       << [op |-> "interp", arg |-> 2], [op |-> "mul", arg |-> 2],
                          [op |-> "pred", arg |-> scale_idx], [op |-> "add", arg |-> 0] >>

C6_Witness ==
    pc = "pre_up" /\ scale_idx = 0 /\ ~IsNone(flow) /\ flow = flow_pred

\* C7: every appended flow of scale s has resolution
\* (factor_s * H_s) x (factor_s * W_s), factor_s = upsample_factor * 2^(num_scales-1-s).
C7_EntryResolution ==
    \A k \in 1..Len(flow_preds) :
        LET e == flow_preds[k]
            fs == upsample_factor * (2 ^ (num_scales - 1 - e.scale))
            ft == feature0_list[e.scale + 1]
        IN e.flow.h = fs * ft.h /\ e.flow.w = fs * ft.w

C7_Witness ==
    /\ num_scales >= 2 /\ Len(flow_preds) = 2
    /\ flow_preds[1].kind = "bilinear" /\ flow_preds[2].kind = "bilinear"

\* C9: at every call of the matcher, the convex upsampler and the flow
\* propagator the two tensor arguments have the same batch size.
C9_BatchConsistency ==
    \A k \in 1..Len(calls) :
        LET c == calls[k]
        IN (\/ c.op = "match"
            \/ c.op = "feature_flow_attn"
            \/ (c.op = "upsample" /\ c.kind = "convex")) => c.b0 = c.b1

\* C10: the calls happen scale by scale in the order interpolate, warp,
\* match, accumulate, [upsample], propagate, [upsample]; the flow passed to
\* the warper and to the propagator is detached; the last returned entry is
\* the post-propagation convex upsample of the last scale.
Gated(s) == (training /\ s < num_scales - 1) \/ s = num_scales - 1
ExpectedOps(s) ==
    (IF s > 0 THEN << <<"interpolate", s>>, <<"flow_warp", s>> >> ELSE <<>>)
    \o << <<"match", s>>, <<"accumulate", s>> >>
    \o (IF Gated(s) THEN << <<"upsample", s>> >> ELSE <<>>)
    \o << <<"feature_flow_attn", s>> >>
    \o (IF Gated(s) THEN << <<"upsample", s>> >> ELSE <<>>)
RECURSIVE ExpectedUpTo(_)
ExpectedUpTo(s) ==
    IF s < 0 THEN << <<"extract_feature", 0>> >>
    ELSE ExpectedUpTo(s - 1) \o ExpectedOps(s)

C10_Order ==
    LET exp == ExpectedUpTo(num_scales - 1)
    IN /\ Len(calls) <= Len(exp)
       /\ \A k \in 1..Len(calls) : <<calls[k].op, calls[k].scale>> = exp[k]
       /\ \A k \in 1..Len(calls) :
             calls[k].op \in {"flow_warp", "feature_flow_attn"} => ~calls[k].grad
       /\ pc = "done" =>
             /\ Len(calls) = Len(exp)
             /\ Len(flow_preds) >= 1
             /\ IsEntry(flow_preds[Len(flow_preds)], num_scales - 1, "post", "convex")

C10_Witness ==
    /\ pc = "done" /\ training
    /\ IsEntry(flow_preds[Len(flow_preds)], num_scales - 1, "post", "convex")

\* =====================================================================
\* Properties of the convex upsampler

InGrid(i, j) == i \in 0..(H - 1) /\ j \in 0..(W - 1)
Neighbours(i, j) ==
    {p \in ((i - 1)..(i + 1)) \X ((j - 1)..(j + 1)) : InGrid(p[1], p[2])}
\* the factor-scaled displacements of the coarse pixels around (i, j)
ScaledNeighbourhood(i, j) == {upsample_factor * coarse[p] : p \in Neighbours(i, j)}
OnBorder(i, j) == Cardinality(Neighbours(i, j)) < NumTaps
\* the same, with 0 for every tap that falls outside the grid
PaddedNeighbourhood(i, j) ==
    ScaledNeighbourhood(i, j) \cup (IF OnBorder(i, j) THEN {0} ELSE {})

WeightsConvex ==
    /\ up_out.wden > 0
    /\ \A t \in TapSet : up_out.wnum[t] >= 0
    /\ SumTo(up_out.wnum, NumTaps - 1) = up_out.wden

WithinRange(S) ==
    /\ \E v \in S : v * up_out.wden <= up_out.num
    /\ \E v \in S : up_out.num <= v * up_out.wden

\* C8 as stated: the 9 weights are non-negative and sum to 1, and the
\* output lies within the range of the displacements of the coarse pixels of
\* the 3x3 neighbourhood, border pixels included.
C8_WithinNeighbourRange ==
    up_out.stage = "out" =>
        /\ WeightsConvex
        /\ WithinRange(ScaledNeighbourhood(CoarseRow(up_out.y), CoarseCol(up_out.x)))

\* C8 amended: the 9 weights are non-negative and sum to 1, and the output
\* lies within the range of the 9 taps of the zero-padded 3x3 neighbourhood:
\* the displacements of the coarse pixels inside the grid and, at a border
\* pixel, the value 0 of the taps outside it.
C8_WithinPaddedRange ==
    /\ up_out.stage # "none" => WeightsConvex
    /\ up_out.stage = "out" =>
          WithinRange(PaddedNeighbourhood(CoarseRow(up_out.y), CoarseCol(up_out.x)))

C8_Witness ==
    /\ up_out.stage = "out"
    /\ OnBorder(CoarseRow(up_out.y), CoarseCol(up_out.x))
    /\ ~WithinRange(ScaledNeighbourhood(CoarseRow(up_out.y), CoarseCol(up_out.x)))

====
